---- MODULE Spec2Model ----
(***************************************************************************)
(* Model of SolanaConnectionService (src/SolanaService.ts).                *)
(*                                                                         *)
(* Part 1: the custodial credential.  The constructor calls                *)
(* _getOrCreateWallet, which makes separate synchronous file-system calls  *)
(* (existsSync, readFileSync, writeFileSync).  Each service instance lives *)
(* in its own OS process; StartupSpec interleaves their file-system calls, *)
(* SeqStartupSpec runs the constructions one after the other.              *)
(*                                                                         *)
(* Part 2: the token operations of one constructed service against the     *)
(* remote ledger (Spec).  Every awaited SDK call is one step that either   *)
(* completes or throws.                                                    *)
(***************************************************************************)
EXTENDS Integers, Sequences, FiniteSets, TLC

\* ------------------------------------------------------------------ bounds
\* Number of service instances (OS processes) constructed against the file.
NumProcs == 3

Procs == 1..NumProcs

VARIABLES
    file,          \* content of solWallet.json
    pc,            \* pc[p]: where instance p's constructor stands
    wallet,        \* wallet[p]: this.wallet of instance p
    ctorError,     \* ctorError[p]: what the constructor of p threw
    generated,     \* number of Keypair.generate() calls made by constructors
    written,       \* the secret keys written to the file, in order
    fsFailed,      \* a file-system call has failed
    mintAccounts,  \* ledger: the mint account at each address
    atas,          \* ledger: number of associated token accounts per <<owner, mint>>
    ledgerTxs,     \* ledger: number of mint/burn/transfer transactions applied
    mintKeys,      \* number of mint keypairs generated by deployTokenContract
    op,            \* the public operation being invoked ("idle" before the first)
    args,          \* its arguments
    at,            \* the awaited call of the invocation, "done", or "idle"
    calls,         \* the remote calls the invocation has issued, in order
    locals,        \* the invocation's local constants
    submitted,     \* the transaction the invocation has handed to the SDK to send
    result         \* what the invocation returned or threw

startupVars == <<file, pc, wallet, ctorError, generated, written, fsFailed>>
ledgerVars == <<mintAccounts, atas, ledgerTxs>>
invocationVars == <<op, args, at, calls, locals, submitted, result>>
opsVars == <<mintAccounts, atas, ledgerTxs, mintKeys, op, args, at, calls, locals,
             submitted, result>>
vars == <<file, pc, wallet, ctorError, generated, written, fsFailed,
          mintAccounts, atas, ledgerTxs, mintKeys, op, args, at, calls, locals,
          submitted, result>>

\* ------------------------------------------------------- credential file
Absent == [kind |-> "absent"]
\* A file that writeFileSync has opened (O_TRUNC) and not (or not fully) written.
Truncated == [kind |-> "truncated"]
\* A file whose content does not parse to {privateKey: <64 valid bytes>}.
Corrupt == [kind |-> "corrupt"]
KeyFile(k) == [kind |-> "key", secret |-> k]

NoWallet == [kind |-> "none"]
Keypair(k) == [kind |-> "keypair", secret |-> k]
NoError == [kind |-> "none"]

\* fs.existsSync(this.walletFilePath)
ExistsSync(f) == f.kind # "absent"

\* JSON.parse(readFileSync(..)) then Keypair.fromSecretKey(new Uint8Array(..)):
\* a keypair when the file holds a valid secret key, a throw otherwise.
ParsesToKey(f) == f.kind = "key"

\* The object thrown by the catch block of _getOrCreateWallet.
WalletError(msg) ==
    [message |-> "Error reading or creating solana wallet: " \o msg, status |-> 500]

InFlight(p) == pc[p] \in {"load", "create", "open", "write"}

\* A credential file written by an earlier run of the service.
ExistingKeyFile == KeyFile(0)

StartupInit ==
    /\ file \in {Absent, Corrupt, ExistingKeyFile}
    /\ pc = [p \in Procs |-> "new"]
    /\ wallet = [p \in Procs |-> NoWallet]
    /\ ctorError = [p \in Procs |-> NoError]
    /\ generated = 0
    /\ written = <<>>
    /\ fsFailed = FALSE

\* The constructor throws: no instance, no wallet.
Throw(p, msg) ==
    /\ pc' = [pc EXCEPT ![p] = "failed"]
    /\ ctorError' = [ctorError EXCEPT ![p] = WalletError(msg)]
    /\ wallet' = wallet

\* A constructor that does not look for the file.
BranchAlwaysCreate(f) == "create"

\* Which branch the existence check takes.
BranchAfterExists(f) == IF ExistsSync(f) THEN "load" ELSE "create"

\* if (fs.existsSync(this.walletFilePath))
CheckExists(p) ==
    /\ pc[p] = "new"
    /\ pc' = [pc EXCEPT ![p] = BranchAfterExists(file)]
    /\ UNCHANGED <<file, wallet, ctorError, generated, written, fsFailed, opsVars>>

\* A load branch that replaces a file it cannot parse by a new key.
FileRegeneratedOnLoadFailure(f) == KeyFile(generated + 1)

\* What the load branch does to the file when parsing fails: nothing.
FileAfterLoadFailure(f) == f

\* readFileSync + JSON.parse + Keypair.fromSecretKey, of the file as it is now.
LoadWallet(p) ==
    /\ pc[p] = "load"
    /\ IF ParsesToKey(file)
       THEN /\ wallet' = [wallet EXCEPT ![p] = Keypair(file.secret)]
            /\ pc' = [pc EXCEPT ![p] = "ready"]
            /\ UNCHANGED <<ctorError, file>>
       ELSE /\ Throw(p, "parse")
            /\ file' = FileAfterLoadFailure(file)
    /\ UNCHANGED <<generated, written, fsFailed, opsVars>>

\* readFileSync itself fails (EACCES, EIO, ...).
LoadWalletReadFails(p) ==
    /\ pc[p] = "load"
    /\ Throw(p, "read")
    /\ fsFailed' = TRUE
    /\ UNCHANGED <<file, generated, written, opsVars>>

\* const wallet = web3.Keypair.generate(): a key no one has held before.
GenerateKeypair(p) ==
    /\ pc[p] = "create"
    /\ generated' = generated + 1
    /\ wallet' = [wallet EXCEPT ![p] = Keypair(generated + 1)]
    /\ pc' = [pc EXCEPT ![p] = "open"]
    /\ UNCHANGED <<file, ctorError, written, fsFailed, opsVars>>

\* writeFileSync, first half: open(path, 'w') creates or truncates the file.
WriteOpen(p) ==
    /\ pc[p] = "open"
    /\ file' = Truncated
    /\ pc' = [pc EXCEPT ![p] = "write"]
    /\ UNCHANGED <<wallet, ctorError, generated, written, fsFailed, opsVars>>

\* writeFileSync: the open fails, the file is as it was.  The wallet local of
\* the else branch never reaches this.wallet.
WriteOpenFails(p) ==
    /\ pc[p] = "open"
    /\ pc' = [pc EXCEPT ![p] = "failed"]
    /\ ctorError' = [ctorError EXCEPT ![p] = WalletError("open")]
    /\ wallet' = [wallet EXCEPT ![p] = NoWallet]
    /\ fsFailed' = TRUE
    /\ UNCHANGED <<file, generated, written, opsVars>>

\* writeFileSync, second half: the JSON of the secret key is written; the
\* function returns the generated wallet.
WriteData(p) ==
    /\ pc[p] = "write"
    /\ file' = KeyFile(wallet[p].secret)
    /\ written' = Append(written, wallet[p].secret)
    /\ pc' = [pc EXCEPT ![p] = "ready"]
    /\ UNCHANGED <<wallet, ctorError, generated, fsFailed, opsVars>>

\* writeFileSync: the write fails (ENOSPC, EIO), the file stays as the open left it.
WriteDataFails(p) ==
    /\ pc[p] = "write"
    /\ pc' = [pc EXCEPT ![p] = "failed"]
    /\ ctorError' = [ctorError EXCEPT ![p] = WalletError("write")]
    /\ wallet' = [wallet EXCEPT ![p] = NoWallet]
    /\ fsFailed' = TRUE
    /\ UNCHANGED <<file, generated, written, opsVars>>

GetOrCreateWalletStep(p) ==
    \/ CheckExists(p)
    \/ LoadWallet(p)
    \/ LoadWalletReadFails(p)
    \/ GenerateKeypair(p)
    \/ WriteOpen(p)
    \/ WriteOpenFails(p)
    \/ WriteData(p)
    \/ WriteDataFails(p)

\* Instances constructed in separate processes: their file-system calls interleave.
StartupNext == \E p \in Procs : GetOrCreateWalletStep(p)

\* Instances constructed one after the other (one process restarted, or one
\* event loop: the constructor is synchronous).
SeqCheckExists(p) ==
    /\ \A q \in Procs \ {p} : ~InFlight(q)
    /\ CheckExists(p)

SeqStartupNext ==
    \E p \in Procs :
        \/ SeqCheckExists(p)
        \/ LoadWallet(p)
        \/ LoadWalletReadFails(p)
        \/ GenerateKeypair(p)
        \/ WriteOpen(p)
        \/ WriteOpenFails(p)
        \/ WriteData(p)
        \/ WriteDataFails(p)

\* ================================================================ Part 2
\* --------------------------------------------------- JavaScript numbers
\* Token amounts exceed the model checker's machine integers: a non-negative
\* integer is its little-endian sequence of base-2^15 limbs, without leading
\* zero limbs (<<>> is 0).
Base == 2 ^ 15

RECURSIVE Limbs(_)
Limbs(n) == IF n = 0 THEN <<>> ELSE <<n % Base>> \o Limbs(n \div Base)

RECURSIVE AddCarry(_, _, _)
AddCarry(a, b, c) ==
    IF a = <<>> /\ b = <<>>
    THEN IF c = 0 THEN <<>> ELSE <<c>>
    ELSE LET x == IF a = <<>> THEN 0 ELSE Head(a)
             y == IF b = <<>> THEN 0 ELSE Head(b)
             s == x + y + c
         IN <<s % Base>> \o AddCarry(IF a = <<>> THEN <<>> ELSE Tail(a),
                                     IF b = <<>> THEN <<>> ELSE Tail(b),
                                     s \div Base)

AddLimbs(a, b) == AddCarry(a, b, 0)

\* a * m + c for a limb m.
RECURSIVE MulLimb(_, _, _)
MulLimb(a, m, c) ==
    IF a = <<>>
    THEN IF c = 0 THEN <<>> ELSE <<c>>
    ELSE LET t == Head(a) * m + c
         IN <<t % Base>> \o MulLimb(Tail(a), m, t \div Base)

\* The exact product of two integers.
RECURSIVE MulLimbs(_, _)
MulLimbs(a, b) ==
    IF a = <<>> \/ b = <<>> THEN <<>>
    ELSE LET rest == MulLimbs(a, Tail(b))
         IN AddLimbs(IF Head(b) = 0 THEN <<>> ELSE MulLimb(a, Head(b), 0),
                     IF rest = <<>> THEN <<>> ELSE <<0>> \o rest)

\* The exact integer 10^d.
RECURSIVE PowerOfTen(_)
PowerOfTen(d) == IF d = 0 THEN <<1>> ELSE MulLimb(PowerOfTen(d - 1), 10, 0)

\* Number of bits of a, and its bit i (bit 0 is the lowest).
BitLength(a) ==
    IF a = <<>> THEN 0
    ELSE 15 * (Len(a) - 1)
         + (CHOOSE n \in 1..15 : 2 ^ (n - 1) <= a[Len(a)] /\ a[Len(a)] < 2 ^ n)
BitAt(a, i) ==
    IF i < 0 \/ (i \div 15) + 1 > Len(a) THEN 0
    ELSE (a[(i \div 15) + 1] \div (2 ^ (i % 15))) % 2

\* The integer whose bit i is bits[i], for i in 0..(15 * n - 1).
RECURSIVE LimbOf(_, _, _)
LimbOf(bits, m, j) ==
    IF j = 15 THEN 0 ELSE bits[15 * m + j] * (2 ^ j) + LimbOf(bits, m, j + 1)
FromBits(bits, n) ==
    LET s == [m \in 1..n |-> LimbOf(bits, m - 1, 0)]
        top == IF \E m \in 1..n : s[m] # 0
               THEN CHOOSE m \in 1..n : s[m] # 0 /\ \A h \in (m + 1)..n : s[h] = 0
               ELSE 0
    IN SubSeq(s, 1, top)

\* Significand width of a JavaScript number (IEEE 754 binary64).
MantissaBits == 53

\* The JavaScript number nearest to the integer a (round to nearest, ties to even).
RoundToDouble(a) ==
    IF BitLength(a) <= MantissaBits THEN a
    ELSE LET k == BitLength(a) - MantissaBits
             Q(j) == BitAt(a, k + j)
             guard == BitAt(a, k - 1)
             sticky == \E i \in 0..(k - 2) : BitAt(a, i) = 1
             up == guard = 1 /\ (sticky \/ Q(0) = 1)
             Inc(j) == IF \A i \in 0..(j - 1) : Q(i) = 1 THEN 1 - Q(j) ELSE Q(j)
             n == Len(a) + 1
             rounded == [i \in 0..(15 * n - 1) |->
                           IF i < k THEN 0 ELSE IF up THEN Inc(i - k) ELSE Q(i - k)]
         IN FromBits(rounded, n)

\* Math.pow(10, decimals)
MathPow10(d) == RoundToDouble(PowerOfTen(d))

\* amount * Math.pow(10, mintInfo.decimals), in JavaScript number arithmetic.
AdjustedAmount(amount, decimals) == RoundToDouble(MulLimbs(amount, MathPow10(decimals)))

\* ------------------------------------------------------------ the ledger
\* Number of deployTokenContract invocations (each consumes a fresh mint keypair).
MaxDeploys == 1
\* Number of mint/burn/transfer transactions the ledger applies.
MaxTxs == 2

\* const decimals = 9
DeployDecimals == 9

\* Decimals of the mint that exists on the ledger before the service runs.
ExternalDecimals == {0, 6}

MintNames == <<"D1", "D2", "D3">>
\* mintKeypair.publicKey of the n-th generated mint keypair.
MintAddr(n) == MintNames[n]
DeployedAddrs == {MintAddr(n) : n \in 1..MaxDeploys}
MintAddrs == {"EXT"} \cup DeployedAddrs
Owners == {"A", "B"}

EmptyAccount ==
    [created |-> FALSE, pointer |-> FALSE, initialized |-> FALSE,
     metadata |-> FALSE, field |-> FALSE, decimals |-> 0]
\* A mint account on which the five deployment instructions have taken effect.
FullAccount(d) ==
    [created |-> TRUE, pointer |-> TRUE, initialized |-> TRUE,
     metadata |-> TRUE, field |-> TRUE, decimals |-> d]
ExternalMint(d) ==
    [created |-> TRUE, pointer |-> FALSE, initialized |-> TRUE,
     metadata |-> FALSE, field |-> FALSE, decimals |-> d]

\* The instructions with the mint initialized before its metadata pointer.
DeployInstructionsMintFirst ==
    << [name |-> "createAccount", decimals |-> 0],
       [name |-> "initializeMint", decimals |-> 9],
       [name |-> "initializeMetadataPointer", decimals |-> 0],
       [name |-> "initializeMetadata", decimals |-> 0],
       [name |-> "updateField", decimals |-> 0] >>

\* The instructions of the deployment transaction, as transaction.add lists them.
DeployInstructions ==
    << [name |-> "createAccount", decimals |-> 0],
       [name |-> "initializeMetadataPointer", decimals |-> 0],
       [name |-> "initializeMint", decimals |-> DeployDecimals],
       [name |-> "initializeMetadata", decimals |-> 0],
       [name |-> "updateField", decimals |-> 0] >>

\* [this.wallet, mintKeypair]
DeploySigners(mint) == {"serviceWallet", mint}

\* The ledger's processing of one instruction on mint account acct:
\* <<accepted, account after>>.
ProcessInstruction(acct, ins) ==
    CASE ins.name = "createAccount" ->
           <<~acct.created, [acct EXCEPT !.created = TRUE]>>
      [] ins.name = "initializeMetadataPointer" ->
           <<acct.created /\ ~acct.initialized, [acct EXCEPT !.pointer = TRUE]>>
      [] ins.name = "initializeMint" ->
           <<acct.created /\ ~acct.initialized,
             [acct EXCEPT !.initialized = TRUE, !.decimals = ins.decimals]>>
      [] ins.name = "initializeMetadata" ->
           <<acct.initialized /\ acct.pointer /\ ~acct.metadata,
             [acct EXCEPT !.metadata = TRUE]>>
      [] ins.name = "updateField" ->
           <<acct.metadata, [acct EXCEPT !.field = TRUE]>>
      [] OTHER -> <<FALSE, acct>>

RECURSIVE ProcessAll(_, _)
ProcessAll(acct, instrs) ==
    IF instrs = <<>> THEN <<TRUE, acct>>
    ELSE LET r == ProcessInstruction(acct, Head(instrs))
         IN IF r[1] THEN ProcessAll(r[2], Tail(instrs)) ELSE <<FALSE, acct>>

\* A transaction is atomic: the account after it when every instruction is
\* accepted and the payer and the new account signed, the account as it was otherwise.
TxAccepted(acct, tx) ==
    /\ ProcessAll(acct, tx.instrs)[1]
    /\ {"serviceWallet", tx.mint} \subseteq tx.signers
AccountAfterTx(acct, tx) ==
    IF TxAccepted(acct, tx) THEN ProcessAll(acct, tx.instrs)[2] ELSE acct

\* ------------------------------------------------------------- arguments
\* 3 and 2^33 + 1.
Amounts == {Limbs(3), AddLimbs(MulLimbs(Limbs(2 ^ 16), Limbs(2 ^ 17)), Limbs(1))}
TokenAddresses == {"bad"} \cup MintAddrs
ToAddresses == {"bad"} \cup Owners
WalletStrings == {"notBase58", "badKey", "skA"}

\* new web3.PublicKey(s) throws unless s is a public key.
IsPublicKey(s) == s # "bad"
\* base58.decode(s) throws on a character outside the alphabet.
Base58Decodes(s) == s # "notBase58"
\* Keypair.fromSecretKey(bytes) throws unless the bytes are a 64-byte secret key
\* whose public half matches.
IsSecretKey(s) == s = "skA"
\* userWallet.publicKey
PublicKeyOf(s) == IF s = "skA" THEN "A" ELSE "none"

NoArgs == [token |-> "-", to |-> "-", wallet |-> "-", amount |-> <<>>]
NoLocals == [mint |-> "-", decimals |-> 0, adjusted |-> <<>>]
NoTx == [kind |-> "none"]
NoResult == [kind |-> "none"]

\* An Error thrown by the SDK (or by PublicKey, base58): a message, no status.
SdkError(what) == [message |-> what]
\* throw {message: "Invalid secret key provided for <operation>", status: 400}
InvalidSecretKey(operation) ==
    [message |-> "Invalid secret key provided for " \o operation, status |-> 400]

Returned(v) == [kind |-> "value", value |-> v]
Threw(e) == [kind |-> "error", error |-> e]

\* The awaited call has settled.
Settle(cs, status) == [cs EXCEPT ![Len(cs)].status = status]

OpsInit ==
    /\ \E d \in ExternalDecimals :
         mintAccounts = [m \in MintAddrs |->
                           IF m = "EXT" THEN ExternalMint(d) ELSE EmptyAccount]
    /\ atas = [pair \in Owners \X MintAddrs |-> 0]
    /\ ledgerTxs = 0
    /\ mintKeys = 0
    /\ op = "idle"
    /\ args = NoArgs
    /\ at = "idle"
    /\ calls = <<>>
    /\ locals = NoLocals
    /\ submitted = NoTx
    /\ result = NoResult

\* Part 1 starts with no instance constructed and the service idle.
StartupFullInit == StartupInit /\ OpsInit

\* Part 2 starts after construction: the first start found no file, generated
\* key 1 and wrote it; every instance holds it.
ConstructedInit ==
    /\ file = KeyFile(1)
    /\ pc = [p \in Procs |-> "ready"]
    /\ wallet = [p \in Procs |-> Keypair(1)]
    /\ ctorError = [p \in Procs |-> NoError]
    /\ generated = 1
    /\ written = <<1>>
    /\ fsFailed = FALSE

Init == ConstructedInit /\ OpsInit

\* ------------------------------------------------------ invocation steps
\* One invocation of a public operation is in progress at a time.  An action
\* named after an operation runs it from its first statement to its first
\* await; each later action resumes it when the awaited call settles and runs
\* it to the next await, the return or the throw.
Call(name) == [name |-> name, payer |-> "-", owner |-> "-", status |-> "pending"]
\* this.getATC(payer, mint, owner)
ATCCall(payer, owner) ==
    [name |-> "getATC", payer |-> payer, owner |-> owner, status |-> "pending"]

\* The operation starts: it throws err before any await, or awaits firstCall.
Start(o, a, l, err, firstCall, label) ==
    /\ at = "idle"
    /\ op' = o
    /\ args' = a
    /\ locals' = l
    /\ submitted' = NoTx
    /\ IF err = NoError
       THEN /\ calls' = <<firstCall>>
            /\ at' = label
            /\ result' = NoResult
       ELSE /\ calls' = <<>>
            /\ at' = "done"
            /\ result' = Threw(err)

\* The awaited call returned; the operation awaits the next one.
Await(call, label) ==
    /\ calls' = Append(Settle(calls, "ok"), call)
    /\ at' = label
    /\ result' = NoResult

\* The awaited call returned and the operation returns v.
Return(v) ==
    /\ calls' = Settle(calls, "ok")
    /\ at' = "done"
    /\ result' = Returned(v)

\* What a catch block that logs and rethrows hands to the caller.
Rethrown(e) == e

\* A failed call issued again.
FailAndRetry(e) ==
    /\ calls' = Append(Settle(calls, "failed"),
                       [calls[Len(calls)] EXCEPT !.status = "pending"])
    /\ at' = at
    /\ result' = result

\* The awaited call threw e; the operation's catch block (if any) rethrows it.
Fail(e) ==
    /\ calls' = Settle(calls, "failed")
    /\ at' = "done"
    /\ result' = Threw(Rethrown(e))

\* A token account created without looking for an existing one.
CreateATA(a, pair) == [a EXCEPT ![pair] = @ + 1]

\* getOrCreateAssociatedTokenAccount on the ledger: the account of the pair is
\* looked up, and created only when there is none.
GetOrCreateATA(a, pair) == IF a[pair] > 0 THEN a ELSE [a EXCEPT ![pair] = 1]

\* The token account calls an operation makes, by owner, in order.
FirstOwner(o, a) == IF o = "mintTokensToUser" THEN a.to ELSE PublicKeyOf(a.wallet)

\* The caller has the value or the error; the service is idle until the next
\* invocation.
ResultDelivered ==
    /\ at = "done"
    /\ op' = "idle"
    /\ args' = NoArgs
    /\ at' = "idle"
    /\ calls' = <<>>
    /\ locals' = NoLocals
    /\ submitted' = NoTx
    /\ result' = NoResult
    /\ UNCHANGED <<startupVars, ledgerVars, mintKeys>>

\* ---- deployTokenContract(tokenName, tokenSymbol, image)
DeployTokenContract ==
    /\ mintKeys < MaxDeploys
    /\ mintKeys' = mintKeys + 1
    /\ Start("deployTokenContract", NoArgs,
             [NoLocals EXCEPT !.mint = MintAddr(mintKeys + 1), !.decimals = DeployDecimals],
             NoError, Call("getMinimumBalanceForRentExemption"), "rent")
    /\ UNCHANGED <<startupVars, ledgerVars>>

\* The transaction handed to sendAndConfirmTransaction.
DeployTransaction(mint) ==
    [kind |-> "deploy", mint |-> mint, instrs |-> DeployInstructions,
     signers |-> DeploySigners(mint)]

DeployRentReturns ==
    /\ op = "deployTokenContract" /\ at = "rent"
    /\ Await(Call("sendAndConfirmTransaction"), "send")
    /\ submitted' = DeployTransaction(locals.mint)
    /\ UNCHANGED <<startupVars, ledgerVars, mintKeys, op, args, locals>>

DeployRentThrows ==
    /\ op = "deployTokenContract" /\ at = "rent"
    /\ Fail(SdkError("getMinimumBalanceForRentExemption"))
    /\ UNCHANGED <<startupVars, ledgerVars, mintKeys, op, args, locals, submitted>>

\* The ledger applied the transaction and the confirmation arrived.
DeploySendReturns ==
    /\ op = "deployTokenContract" /\ at = "send"
    /\ TxAccepted(mintAccounts[locals.mint], submitted)
    /\ mintAccounts' = [mintAccounts EXCEPT
                          ![locals.mint] = AccountAfterTx(@, submitted)]
    /\ Return(locals.mint)
    /\ UNCHANGED <<startupVars, atas, ledgerTxs, mintKeys, op, args, locals, submitted>>

\* The transaction never reached the ledger, or the ledger refused it.
DeploySendRejected ==
    /\ op = "deployTokenContract" /\ at = "send"
    /\ Fail(SdkError("sendAndConfirmTransaction: transaction failed"))
    /\ UNCHANGED <<startupVars, ledgerVars, mintKeys, op, args, locals, submitted>>

\* sendAndConfirmTransaction sends, then waits for the confirmation: the ledger
\* applied the transaction, and the wait failed (timeout, connection lost).
DeploySendConfirmationFails ==
    /\ op = "deployTokenContract" /\ at = "send"
    /\ TxAccepted(mintAccounts[locals.mint], submitted)
    /\ mintAccounts' = [mintAccounts EXCEPT
                          ![locals.mint] = AccountAfterTx(@, submitted)]
    /\ Fail(SdkError("sendAndConfirmTransaction: confirmation failed"))
    /\ UNCHANGED <<startupVars, atas, ledgerTxs, mintKeys, op, args, locals, submitted>>

\* ---- mintTokensToUser, burnTokensFromUser, transferTokens
\* The statements before the first await: the error they throw, or NoError.
MintValidation(a) ==
    IF ~IsPublicKey(a.token) \/ ~IsPublicKey(a.to)
    THEN SdkError("Invalid public key input")
    ELSE NoError

\* burnTokensFromUser without the inner try around Keypair.fromSecretKey.
BurnValidationWithoutKeyCheck(a) ==
    IF ~Base58Decodes(a.wallet) THEN [message |-> "Non-base58 character"]
    ELSE IF ~IsPublicKey(a.token) THEN [message |-> "Invalid public key input"]
    ELSE IF ~IsSecretKey(a.wallet) THEN [message |-> "bad secret key size"]
    ELSE [kind |-> "none"]

\* base58.decode(wallet); new PublicKey(tokenAddress); Keypair.fromSecretKey
BurnValidation(a) ==
    IF ~Base58Decodes(a.wallet) THEN SdkError("Non-base58 character")
    ELSE IF ~IsPublicKey(a.token) THEN SdkError("Invalid public key input")
    ELSE IF ~IsSecretKey(a.wallet) THEN InvalidSecretKey("burnTokensFromUser")
    ELSE NoError

\* base58.decode(wallet); Keypair.fromSecretKey; new PublicKey(tokenAddress);
\* new PublicKey(to)
TransferValidation(a) ==
    IF ~Base58Decodes(a.wallet) THEN SdkError("Non-base58 character")
    ELSE IF ~IsSecretKey(a.wallet) THEN InvalidSecretKey("transferTokens")
    ELSE IF ~IsPublicKey(a.token) \/ ~IsPublicKey(a.to)
         THEN SdkError("Invalid public key input")
    ELSE NoError

\* The SDK call that builds, sends and confirms the operation's transaction.
SubmitCall(o) ==
    CASE o = "mintTokensToUser" -> "mintTo"
      [] o = "burnTokensFromUser" -> "burn"
      [] o = "transferTokens" -> "transfer"

\* The transaction of the operation: mint, token accounts, raw amount, signers.
TokenTransaction(o, a, raw) ==
    CASE o = "mintTokensToUser" ->
           [kind |-> "mintTo", mint |-> a.token, accounts |-> <<<<a.to, a.token>>>>,
            amount |-> raw, signers |-> {"serviceWallet"}]
      [] o = "burnTokensFromUser" ->
           [kind |-> "burn", mint |-> a.token,
            accounts |-> <<<<PublicKeyOf(a.wallet), a.token>>>>,
            amount |-> raw, signers |-> {"serviceWallet", PublicKeyOf(a.wallet)}]
      [] o = "transferTokens" ->
           [kind |-> "transfer", mint |-> a.token,
            accounts |-> <<<<PublicKeyOf(a.wallet), a.token>>, <<a.to, a.token>>>>,
            amount |-> raw, signers |-> {"serviceWallet", PublicKeyOf(a.wallet)}]

MintTokensToUser ==
    \E token \in TokenAddresses, to \in ToAddresses, amount \in Amounts :
        LET a == [NoArgs EXCEPT !.token = token, !.to = to, !.amount = amount]
        IN /\ ledgerTxs < MaxTxs
           /\ Start("mintTokensToUser", a, NoLocals, MintValidation(a),
                    ATCCall("serviceWallet", a.to), "getATC")
           /\ UNCHANGED <<startupVars, ledgerVars, mintKeys>>

BurnTokensFromUser ==
    \E token \in TokenAddresses, w \in WalletStrings, amount \in Amounts :
        LET a == [NoArgs EXCEPT !.token = token, !.wallet = w, !.amount = amount]
        IN /\ ledgerTxs < MaxTxs
           /\ Start("burnTokensFromUser", a, NoLocals, BurnValidation(a),
                    ATCCall("serviceWallet", PublicKeyOf(a.wallet)), "getATC")
           /\ UNCHANGED <<startupVars, ledgerVars, mintKeys>>

TransferTokens ==
    \E token \in TokenAddresses, to \in ToAddresses, amount \in Amounts,
       w \in WalletStrings :
        LET a == [token |-> token, to |-> to, wallet |-> w, amount |-> amount]
        IN /\ ledgerTxs < MaxTxs
           /\ Start("transferTokens", a, NoLocals, TransferValidation(a),
                    ATCCall("serviceWallet", PublicKeyOf(a.wallet)), "getATC")
           /\ UNCHANGED <<startupVars, ledgerVars, mintKeys>>

\* await this.getATC(this.wallet, mint, owner) returned; next: getMint.
GetATCReturns(o) ==
    /\ op = o /\ at = "getATC"
    /\ mintAccounts[args.token].initialized
    /\ atas' = GetOrCreateATA(atas, <<FirstOwner(o, args), args.token>>)
    /\ Await(Call("getMint"), "getMint")
    /\ UNCHANGED <<startupVars, mintAccounts, ledgerTxs, mintKeys, op, args, locals,
                   submitted>>

\* transferTokens: the sender's token account returned; next: the recipient's.
TransferGetATCReturns ==
    /\ op = "transferTokens" /\ at = "getATC"
    /\ mintAccounts[args.token].initialized
    /\ atas' = GetOrCreateATA(atas, <<PublicKeyOf(args.wallet), args.token>>)
    /\ Await(ATCCall("serviceWallet", args.to), "getATC2")
    /\ UNCHANGED <<startupVars, mintAccounts, ledgerTxs, mintKeys, op, args, locals,
                   submitted>>

TransferGetATC2Returns ==
    /\ op = "transferTokens" /\ at = "getATC2"
    /\ mintAccounts[args.token].initialized
    /\ atas' = GetOrCreateATA(atas, <<args.to, args.token>>)
    /\ Await(Call("getMint"), "getMint")
    /\ UNCHANGED <<startupVars, mintAccounts, ledgerTxs, mintKeys, op, args, locals,
                   submitted>>

\* await getMint(..) returned: adjustedAmount is computed from the decimals it
\* read and the transaction is handed to mintTo / burn / transfer.
GetMintReturns(o) ==
    /\ op = o /\ at = "getMint"
    /\ mintAccounts[args.token].initialized
    /\ LET d == mintAccounts[args.token].decimals
           adjustedAmount == AdjustedAmount(args.amount, d)
       IN /\ locals' = [locals EXCEPT !.decimals = d, !.adjusted = adjustedAmount]
          /\ submitted' = TokenTransaction(o, args, adjustedAmount)
    /\ Await(Call(SubmitCall(o)), "submit")
    /\ UNCHANGED <<startupVars, ledgerVars, mintKeys, op, args>>

\* The signature returned without awaiting confirmTransaction.
SubmitReturnsWithoutConfirm(o) ==
    /\ op = o /\ at = "submit"
    /\ ledgerTxs' = ledgerTxs + 1
    /\ calls' = Settle(calls, "ok")
    /\ at' = "done"
    /\ result' = [kind |-> "value", value |-> "signature"]
    /\ UNCHANGED <<startupVars, mintAccounts, atas, mintKeys, op, args, locals,
                   submitted>>

\* await mintTo / burn / transfer returned the signature: the ledger applied
\* the transaction.  Next: confirmTransaction(tx, 'finalized').
SubmitReturns(o) ==
    /\ op = o /\ at = "submit"
    /\ \A i \in 1..Len(submitted.accounts) : atas[submitted.accounts[i]] > 0
    /\ ledgerTxs' = ledgerTxs + 1
    /\ Await(Call("confirmTransaction"), "confirm")
    /\ UNCHANGED <<startupVars, mintAccounts, atas, mintKeys, op, args, locals,
                   submitted>>

\* await mintTo / burn / transfer threw: the ledger refused the transaction, or
\* applied it and the SDK's wait for its confirmation failed.
SubmitThrows(o) ==
    /\ op = o /\ at = "submit"
    /\ \E landed \in BOOLEAN :
         ledgerTxs' = IF landed THEN ledgerTxs + 1 ELSE ledgerTxs
    /\ Fail(SdkError(SubmitCall(o)))
    /\ UNCHANGED <<startupVars, mintAccounts, atas, mintKeys, op, args, locals,
                   submitted>>

\* await this.connection.confirmTransaction(tx, 'finalized') returned; return tx.
ConfirmReturns(o) ==
    /\ op = o /\ at = "confirm"
    /\ Return("signature")
    /\ UNCHANGED <<startupVars, ledgerVars, mintKeys, op, args, locals, submitted>>

\* A token account call, the mint query or the confirmation threw.
CallThrows(o) ==
    /\ op = o /\ at \in {"getATC", "getATC2", "getMint", "confirm"}
    /\ Fail(SdkError(at))
    /\ UNCHANGED <<startupVars, ledgerVars, mintKeys, op, args, locals, submitted>>

MintGetATCReturns == GetATCReturns("mintTokensToUser")
MintGetMintReturns == GetMintReturns("mintTokensToUser")
MintToReturns == SubmitReturns("mintTokensToUser")
MintToThrows == SubmitThrows("mintTokensToUser")
MintConfirmReturns == ConfirmReturns("mintTokensToUser")
MintCallThrows == CallThrows("mintTokensToUser")

BurnGetATCReturns == GetATCReturns("burnTokensFromUser")
BurnGetMintReturns == GetMintReturns("burnTokensFromUser")
BurnReturns == SubmitReturns("burnTokensFromUser")
BurnThrows == SubmitThrows("burnTokensFromUser")
BurnConfirmReturns == ConfirmReturns("burnTokensFromUser")
BurnCallThrows == CallThrows("burnTokensFromUser")

TransferGetMintReturns == GetMintReturns("transferTokens")
TransferReturns == SubmitReturns("transferTokens")
TransferThrows == SubmitThrows("transferTokens")
TransferConfirmReturns == ConfirmReturns("transferTokens")
TransferCallThrows == CallThrows("transferTokens")

\* ---- getTokenInstanceAndDecimals, getATC, getSolBalance, getWalletTokenBalance
QueryValidation(address) ==
    IF IsPublicKey(address) THEN NoError ELSE SdkError("Invalid public key input")

GetTokenInstanceAndDecimals ==
    \E token \in TokenAddresses :
        /\ Start("getTokenInstanceAndDecimals", [NoArgs EXCEPT !.token = token],
                 NoLocals, QueryValidation(token), Call("getMint"), "query")
        /\ UNCHANGED <<startupVars, ledgerVars, mintKeys>>

GetTokenInstanceAndDecimalsReturns ==
    /\ op = "getTokenInstanceAndDecimals" /\ at = "query"
    /\ mintAccounts[args.token].initialized
    /\ Return([contract |-> args.token, decimals |-> mintAccounts[args.token].decimals])
    /\ UNCHANGED <<startupVars, ledgerVars, mintKeys, op, args, locals, submitted>>

\* getATC(payer, mint, owner) takes PublicKey objects.
GetATC ==
    \E payer \in {"serviceWallet", "A"}, mint \in MintAddrs, owner \in Owners :
        /\ Start("getATC", [NoArgs EXCEPT !.token = mint, !.to = owner, !.wallet = payer],
                 NoLocals, NoError, ATCCall(payer, owner), "query")
        /\ UNCHANGED <<startupVars, ledgerVars, mintKeys>>

GetATCQueryReturns ==
    /\ op = "getATC" /\ at = "query"
    /\ mintAccounts[args.token].initialized
    /\ atas' = GetOrCreateATA(atas, <<args.to, args.token>>)
    /\ Return(<<args.to, args.token>>)
    /\ UNCHANGED <<startupVars, mintAccounts, ledgerTxs, mintKeys, op, args, locals,
                   submitted>>

GetSolBalance ==
    /\ Start("getSolBalance", NoArgs, NoLocals, NoError, Call("getBalance"), "query")
    /\ UNCHANGED <<startupVars, ledgerVars, mintKeys>>

GetSolBalanceReturns ==
    /\ op = "getSolBalance" /\ at = "query"
    /\ Return("lamports")
    /\ UNCHANGED <<startupVars, ledgerVars, mintKeys, op, args, locals, submitted>>

GetWalletTokenBalance ==
    \E address \in ToAddresses :
        /\ Start("getWalletTokenBalance", [NoArgs EXCEPT !.to = address], NoLocals,
                 QueryValidation(address), Call("getTokenAccountsByOwner"), "query")
        /\ UNCHANGED <<startupVars, ledgerVars, mintKeys>>

\* One entry per token account of the owner (balances are not modelled).
GetWalletTokenBalanceReturns ==
    /\ op = "getWalletTokenBalance" /\ at = "query"
    /\ Return({m \in MintAddrs : atas[<<args.to, m>>] > 0})
    /\ UNCHANGED <<startupVars, ledgerVars, mintKeys, op, args, locals, submitted>>

\* The remote call of a query threw.
QueryThrows ==
    /\ at = "query"
    /\ Fail(SdkError(op))
    /\ UNCHANGED <<startupVars, ledgerVars, mintKeys, op, args, locals, submitted>>

\* ------------------------------------------------------- specifications
Next ==
    \/ DeployTokenContract
    \/ DeployRentReturns
    \/ DeployRentThrows
    \/ DeploySendReturns
    \/ DeploySendRejected
    \/ DeploySendConfirmationFails
    \/ MintTokensToUser
    \/ MintGetATCReturns
    \/ MintGetMintReturns
    \/ MintToReturns
    \/ MintToThrows
    \/ MintConfirmReturns
    \/ MintCallThrows
    \/ BurnTokensFromUser
    \/ BurnGetATCReturns
    \/ BurnGetMintReturns
    \/ BurnReturns
    \/ BurnThrows
    \/ BurnConfirmReturns
    \/ BurnCallThrows
    \/ TransferTokens
    \/ TransferGetATCReturns
    \/ TransferGetATC2Returns
    \/ TransferGetMintReturns
    \/ TransferReturns
    \/ TransferThrows
    \/ TransferConfirmReturns
    \/ TransferCallThrows
    \/ GetTokenInstanceAndDecimals
    \/ GetTokenInstanceAndDecimalsReturns
    \/ GetATC
    \/ GetATCQueryReturns
    \/ GetSolBalance
    \/ GetSolBalanceReturns
    \/ GetWalletTokenBalance
    \/ GetWalletTokenBalanceReturns
    \/ QueryThrows
    \/ ResultDelivered

\* The operations of a constructed service.
Spec == Init /\ [][Next]_vars
\* Instances constructed in separate processes.
StartupSpec == StartupFullInit /\ [][StartupNext]_vars
\* Instances constructed one after the other.
SeqStartupSpec == StartupFullInit /\ [][SeqStartupNext]_vars

\* ================================================================ claims
TokenOps == {"mintTokensToUser", "burnTokensFromUser", "transferTokens"}
SubmitCalls == {"sendAndConfirmTransaction", "mintTo", "burn", "transfer"}
Ready(p) == pc[p] = "ready"

\* ---- C1 (SeqStartupSpec)
\* C1: over constructions run one after the other with no file-system
\* failure, the credential is generated and written at most once; every
\* constructed instance holds the key that is in the file, which is the key
\* written by the first construction when the file was absent, and the key the
\* file already held otherwise (then nothing is written).
C1_CreatedOnceThenLoaded ==
    ~fsFailed =>
        /\ Len(written) <= 1
        /\ generated <= 1
        /\ \A p \in Procs :
             Ready(p) =>
                /\ ParsesToKey(file)
                /\ wallet[p] = Keypair(file.secret)
                /\ \/ written = <<>> /\ file = ExistingKeyFile
                   \/ written = <<wallet[p].secret>>

\* The first construction created the credential, two later ones loaded it.
C1_Witness ==
    /\ ~fsFailed
    /\ written = <<1>>
    /\ \A p \in Procs : Ready(p) /\ wallet[p] = Keypair(1)

\* ---- C2 (StartupSpec)
\* C2: with the constructors' file-system calls interleaved, the wallet of
\* every constructed instance is the key in the credential file, and the
\* credential is generated and written at most once.
C2_OneCredentialGoverns ==
    /\ Len(written) <= 1
    /\ \A p \in Procs : Ready(p) => file = KeyFile(wallet[p].secret)

\* ---- C9 (SeqStartupSpec)
ExistingFileKept ==
    (ExistsSync(file) /\ \A p \in Procs : pc[p] # "write") => file' = file
UnparseableFileFails ==
    \A p \in Procs :
        (pc[p] = "load" /\ ~ParsesToKey(file) /\ pc'[p] # pc[p]) => pc'[p] = "failed"
\* C9: a construction that fails has thrown an object with a message and
\* status 500 and leaves no wallet; a construction that finds a file it cannot
\* parse fails; and a file that exists (and is not the one this construction
\* is in the middle of writing) is never changed.
C9_FailedConstruction ==
    /\ [](\A p \in Procs :
            /\ pc[p] = "failed" =>
                 /\ DOMAIN ctorError[p] = {"message", "status"}
                 /\ ctorError[p].status = 500
                 /\ wallet[p] = NoWallet
            /\ Ready(p) => ctorError[p] = NoError /\ wallet[p].kind = "keypair")
    /\ [][ExistingFileKept /\ UnparseableFileFails]_vars

\* A construction found a file that does not parse and failed; the file is as it was.
C9_Witness ==
    \E p \in Procs :
        /\ pc[p] = "failed"
        /\ file = Corrupt
        /\ ctorError[p] = WalletError("parse")

\* ---- C3 (Spec)
DeployOrder ==
    <<"createAccount", "initializeMetadataPointer", "initializeMint",
      "initializeMetadata", "updateField">>
DeployShape ==
    op = "deployTokenContract" =>
        /\ Cardinality({i \in 1..Len(calls) : calls[i].name \in SubmitCalls}) <= 1
        /\ submitted # NoTx =>
             /\ [i \in 1..Len(submitted.instrs) |-> submitted.instrs[i].name] = DeployOrder
             /\ submitted.signers = {"serviceWallet", locals.mint}
\* C3 as claimed: one transaction of the five instructions in order, signed by
\* the wallet and the mint keypair; when deployTokenContract is over, either
\* all five have taken effect and the address is returned, or none has and no
\* address is returned.
C3_AllAndAddressOrNothing ==
    /\ DeployShape
    /\ (op = "deployTokenContract" /\ at = "done") =>
          \/ /\ mintAccounts[locals.mint] = FullAccount(DeployDecimals)
             /\ result = Returned(locals.mint)
          \/ /\ mintAccounts[locals.mint] = EmptyAccount
             /\ result.kind = "error"

\* C3 as amended: one transaction of the five instructions in order, signed by
\* the wallet and the mint keypair; on the ledger all five have taken effect or
\* none; the address is returned only when all five have, and a run after
\* which none has returns no address.  (A run may throw although all five took
\* effect.)
C3_DeployOneAtomicTransaction ==
    /\ DeployShape
    /\ \A m \in DeployedAddrs :
         mintAccounts[m] \in {EmptyAccount, FullAccount(DeployDecimals)}
    /\ (op = "deployTokenContract" /\ at = "done") =>
          /\ result.kind = "value" =>
                /\ result = Returned(locals.mint)
                /\ mintAccounts[locals.mint] = FullAccount(DeployDecimals)
          /\ mintAccounts[locals.mint] = EmptyAccount => result.kind = "error"

\* deployTokenContract returned the address of a fully registered mint.
C3_Witness ==
    /\ op = "deployTokenContract" /\ at = "done"
    /\ result = Returned(locals.mint)
    /\ mintAccounts[locals.mint] = FullAccount(DeployDecimals)

\* ---- C4 (Spec)
\* C4: whenever an SDK call made by an operation fails, the error that reaches
\* the caller is an object with a message and a status code.
C4_ErrorsCarryMessageAndStatus ==
    (at = "done" /\ result.kind = "error" /\ calls # <<>>
       /\ calls[Len(calls)].status = "failed") =>
        {"message", "status"} \subseteq DOMAIN result.error

\* ---- C5 (Spec)
\* The remote calls of an operation, as <<name, owner of the token account>>.
ExpectedCalls(o, a) ==
    CASE o = "mintTokensToUser" ->
           << <<"getATC", a.to>>, <<"getMint", "-">>, <<"mintTo", "-">>,
              <<"confirmTransaction", "-">> >>
      [] o = "burnTokensFromUser" ->
           << <<"getATC", PublicKeyOf(a.wallet)>>, <<"getMint", "-">>, <<"burn", "-">>,
              <<"confirmTransaction", "-">> >>
      [] o = "transferTokens" ->
           << <<"getATC", PublicKeyOf(a.wallet)>>, <<"getATC", a.to>>,
              <<"getMint", "-">>, <<"transfer", "-">>, <<"confirmTransaction", "-">> >>
\* C5: the calls of mintTokensToUser, burnTokensFromUser and transferTokens
\* are issued in the fixed order token account(s), mint info, transaction,
\* confirmation; a call is issued only when every earlier one has returned;
\* the signature is returned only after the confirmation has returned.
C5_CallsInFixedOrder ==
    op \in TokenOps =>
        /\ Len(calls) <= Len(ExpectedCalls(op, args))
        /\ \A i \in 1..Len(calls) :
             /\ <<calls[i].name, calls[i].owner>> = ExpectedCalls(op, args)[i]
             /\ i < Len(calls) => calls[i].status = "ok"
        /\ result.kind = "value" =>
             /\ Len(calls) = Len(ExpectedCalls(op, args))
             /\ \A i \in 1..Len(calls) : calls[i].status = "ok"

\* transferTokens returned the signature after its five calls.
C5_Witness ==
    /\ op = "transferTokens"
    /\ result = Returned("signature")
    /\ Len(calls) = 5

\* ---- C6 (Spec)
\* C6: an invocation of deployTokenContract, mintTokensToUser,
\* burnTokensFromUser or transferTokens submits at most one transaction of its
\* own, and a failed call is its last call: the invocation is over and has thrown.
C6_NoRetry ==
    op \in TokenOps \cup {"deployTokenContract"} =>
        /\ Cardinality({i \in 1..Len(calls) : calls[i].name \in SubmitCalls}) <= 1
        /\ \A i \in 1..Len(calls) :
             calls[i].status = "failed" =>
                /\ i = Len(calls)
                /\ at = "done"
                /\ result.kind = "error"

\* The burn transaction failed: the invocation ended there.
C6_Witness ==
    /\ op = "burnTokensFromUser"
    /\ Len(calls) = 3
    /\ calls[3] = [name |-> "burn", payer |-> "-", owner |-> "-", status |-> "failed"]
    /\ at = "done"

\* ---- C7 (Spec)
\* The token accounts the operation's transaction uses.
AccountsUsed(o, a) ==
    CASE o = "mintTokensToUser" -> << <<a.to, a.token>> >>
      [] o = "burnTokensFromUser" -> << <<PublicKeyOf(a.wallet), a.token>> >>
      [] o = "transferTokens" ->
           << <<PublicKeyOf(a.wallet), a.token>>, <<a.to, a.token>> >>
\* C7: when mintTokensToUser, burnTokensFromUser or transferTokens hands its
\* transaction to the SDK, a token account exists for every (owner, mint) pair
\* the transaction uses, each obtained by a getATC call paid by the service
\* wallet; there is never more than one token account per pair.
C7_TokenAccountsOnDemand ==
    /\ \A pair \in Owners \X MintAddrs : atas[pair] <= 1
    /\ (op \in TokenOps /\ submitted # NoTx) =>
          /\ submitted.accounts = AccountsUsed(op, args)
          /\ \A i \in 1..Len(submitted.accounts) :
               /\ atas[submitted.accounts[i]] = 1
               /\ calls[i] = [name |-> "getATC", payer |-> "serviceWallet",
                              owner |-> submitted.accounts[i][1], status |-> "ok"]

\* A transfer from A to B is being submitted: both token accounts exist.
C7_Witness ==
    /\ op = "transferTokens" /\ at = "submit"
    /\ args.to = "B"
    /\ atas[<<"A", args.token>>] = 1 /\ atas[<<"B", args.token>>] = 1

\* ---- C8 (Spec)
BadKeyInvocation ==
    /\ op \in {"burnTokensFromUser", "transferTokens"}
    /\ Base58Decodes(args.wallet)
    /\ ~IsSecretKey(args.wallet)
\* C8 as claimed: with a wallet string that decodes to bytes that are no
\* secret key, burnTokensFromUser and transferTokens throw
\* {message: "Invalid secret key provided for <operation>", status: 400} and
\* issue no remote call.
C8_AlwaysInvalidSecretKey ==
    BadKeyInvocation =>
        /\ result = Threw(InvalidSecretKey(op))
        /\ calls = <<>>

\* C8 as amended: such an invocation throws before any remote call and leaves
\* the ledger as it was; what it throws is the status-400 object in
\* transferTokens, and in burnTokensFromUser when the token address is a
\* public key; burnTokensFromUser with a malformed token address throws the
\* PublicKey constructor's error instead.
C8_InvalidSecretKeyRejected ==
    /\ [](BadKeyInvocation =>
            /\ at = "done"
            /\ calls = <<>>
            /\ result.kind = "error"
            /\ (op = "transferTokens" \/ IsPublicKey(args.token)) =>
                  result.error = InvalidSecretKey(op)
            /\ (op = "burnTokensFromUser" /\ ~IsPublicKey(args.token)) =>
                  result.error = SdkError("Invalid public key input"))
    /\ [][BadKeyInvocation' => ledgerVars' = ledgerVars]_vars

\* burnTokensFromUser was refused for its secret key.
C8_Witness ==
    /\ op = "burnTokensFromUser"
    /\ args.wallet = "badKey"
    /\ result = Threw(InvalidSecretKey("burnTokensFromUser"))
    /\ calls = <<>>

\* ---- C10 (Spec)
\* C10: the raw amount handed to mintTo / burn / transfer is
\* amount * 10^decimals for the decimals the mint has on the ledger, and every
\* mint deployed by the service has 9 decimals.
C10_RawAmountIsAmountTimesPowerOfTen ==
    /\ \A m \in DeployedAddrs :
         mintAccounts[m].initialized => mintAccounts[m].decimals = 9
    /\ (op \in TokenOps /\ submitted # NoTx) =>
          /\ locals.decimals = mintAccounts[args.token].decimals
          /\ submitted.amount = MulLimbs(args.amount, PowerOfTen(locals.decimals))

====
